---------------------------- MODULE Spec2Model ----------------------------
(***************************************************************************)
(* pcap-file: the Writer (src/src/writer.rs) and the Parser                *)
(* (src/src/pcap/parser.rs) of the classic packet-capture format.          *)
(*                                                                         *)
(* A byte is an integer 0..255, a buffer a sequence of bytes.  The header  *)
(* and packet codecs the two files call (PcapHeader::to_array,             *)
(* PcapHeader::from_slice, PacketHeader::to_array, Packet::from_slice,     *)
(* endianness, ts_resolution) live outside the two files; they are         *)
(* modelled from sections 4.1, 4.2 and 6 of the specification.             *)
(***************************************************************************)
EXTENDS Integers, Sequences, FiniteSets

(***************************************************************************)
(* Bounds of the exploration.                                              *)
(***************************************************************************)
\* Largest number of write / write_packet calls in one run.
MaxPackets == 2
\* Longest payload handed to the Writer.
MaxData == 2

(***************************************************************************)
(* Words.  A u32 is held as its four bytes, most significant first, so     *)
(* that every bit pattern up to 0xffffffff has a value; a u16 is a number. *)
(***************************************************************************)
\* The u32 of a number below 2^31.
W(n) == <<n \div 16777216, (n \div 65536) % 256, (n \div 256) % 256, n % 256>>

\* The number of a u32 below 2^31.
Val(w) == ((w[1] * 256 + w[2]) * 256 + w[3]) * 256 + w[4]

\* n < w, for a number n below 2^31 and any u32 w.
LessThanWord(n, w) == w[1] >= 128 \/ n < Val(w)

\* The u32 bit pattern of an i32 (two's complement).
I32W(v) ==
    IF v >= 0 THEN W(v)
    ELSE LET u == W((v + 2147483647) + 1) IN <<u[1] + 128, u[2], u[3], u[4]>>

\* The i32 of a u32 bit pattern.
WI32(w) ==
    IF w[1] < 128 THEN Val(w)
    ELSE (Val(<<w[1] - 128, w[2], w[3], w[4]>>) - 2147483647) - 1

(***************************************************************************)
(* Program constants.                                                      *)
(***************************************************************************)
MAGIC_BE_USEC == <<161, 178, 195, 212>>      \* 0xa1b2c3d4
MAGIC_LE_USEC == <<212, 195, 178, 161>>      \* 0xd4c3b2a1
MAGIC_BE_NSEC == <<161, 178, 60, 77>>        \* 0xa1b23c4d
MAGIC_LE_NSEC == <<77, 60, 178, 161>>        \* 0x4d3cb2a1
VERSION_MAJOR == 2
VERSION_MINOR == 4
SNAPLEN == 65535
DATALINK_ETHERNET == 1
GLOBAL_HEADER_LEN == 24
PACKET_HEADER_LEN == 16

AcceptedMagics == {MAGIC_BE_USEC, MAGIC_LE_USEC, MAGIC_BE_NSEC, MAGIC_LE_NSEC}

None == [none |-> TRUE]

(***************************************************************************)
(* Fixed-width integer encoding (byteorder's BigEndian / LittleEndian).    *)
(***************************************************************************)
Reverse(s) == [i \in 1..Len(s) |-> s[Len(s) + 1 - i]]

write_u32(order, w) == IF order = "Big" THEN w ELSE Reverse(w)

write_u16(order, v) ==
    IF order = "Big" THEN <<v \div 256, v % 256>> ELSE <<v % 256, v \div 256>>

write_i32(order, v) == write_u32(order, I32W(v))

read_u32(order, b) == IF order = "Big" THEN b ELSE Reverse(b)

read_u16(order, b) == IF order = "Big" THEN b[1] * 256 + b[2] ELSE b[2] * 256 + b[1]

read_i32(order, b) == WI32(read_u32(order, b))

Drop(s, n) == SubSeq(s, n + 1, Len(s))

Take(s, n) == SubSeq(s, 1, n)

(***************************************************************************)
(* The global header: derived properties and codec.                        *)
(***************************************************************************)
\* PcapHeader::endianness: the byte order the magic number selects.
endianness(header) ==
    IF header.magic_number \in {MAGIC_BE_USEC, MAGIC_BE_NSEC} THEN "Big" ELSE "Little"

\* PcapHeader::ts_resolution: the timestamp unit the magic number selects.
ts_resolution(header) ==
    IF header.magic_number \in {MAGIC_BE_USEC, MAGIC_LE_USEC}
    THEN "MicroSecond" ELSE "NanoSecond"

\* PcapHeader::to_array::<B>: the magic number is copied literally (always
\* big-endian), the other fields are written in byte order B.
PcapHeader_to_array(header, order) ==
    write_u32("Big", header.magic_number)
    \o write_u16(order, header.version_major)
    \o write_u16(order, header.version_minor)
    \o write_i32(order, header.ts_correction)
    \o write_u32(order, header.ts_accuracy)
    \o write_u32(order, header.snaplen)
    \o write_u32(order, header.datalink)

\* PcapHeader::from_slice: 24 bytes or TruncatedHeader; the first four bytes
\* must spell an accepted magic number; the rest is read in its byte order.
PcapHeader_from_slice(slice) ==
    IF Len(slice) < GLOBAL_HEADER_LEN
    THEN [ok |-> FALSE, err |-> "TruncatedHeader"]
    ELSE LET magic == read_u32("Big", SubSeq(slice, 1, 4))
             order == endianness([magic_number |-> magic])
         IN  IF magic \notin AcceptedMagics
             THEN [ok |-> FALSE, err |-> "InvalidMagicNumber"]
             ELSE [ok |-> TRUE,
                   header |-> [magic_number  |-> magic,
                               version_major |-> read_u16(order, SubSeq(slice, 5, 6)),
                               version_minor |-> read_u16(order, SubSeq(slice, 7, 8)),
                               ts_correction |-> read_i32(order, SubSeq(slice, 9, 12)),
                               ts_accuracy   |-> read_u32(order, SubSeq(slice, 13, 16)),
                               snaplen       |-> read_u32(order, SubSeq(slice, 17, 20)),
                               datalink      |-> read_u32(order, SubSeq(slice, 21, 24))],
                   rem |-> Drop(slice, GLOBAL_HEADER_LEN)]

(***************************************************************************)
(* The packet record: codec.                                               *)
(***************************************************************************)
\* PacketHeader::to_array::<B>: the four fields of the header, as stored.
PacketHeader_to_array(ph, order) ==
    write_u32(order, ph.ts_sec)
    \o write_u32(order, ph.ts_usec)
    \o write_u32(order, ph.incl_len)
    \o write_u32(order, ph.orig_len)

\* Packet::from_slice::<B>: 16 bytes of header or TruncatedHeader, then
\* incl_len bytes of payload or TruncatedPacketData.  The timestamp's
\* fraction is returned as stored, in the unit `resolution` names.
Packet_from_slice(order, slice, resolution) ==
    IF Len(slice) < PACKET_HEADER_LEN
    THEN [ok |-> FALSE, err |-> "TruncatedHeader"]
    ELSE LET ph == [ts_sec   |-> read_u32(order, SubSeq(slice, 1, 4)),
                    ts_usec  |-> read_u32(order, SubSeq(slice, 5, 8)),
                    incl_len |-> read_u32(order, SubSeq(slice, 9, 12)),
                    orig_len |-> read_u32(order, SubSeq(slice, 13, 16))]
             body == Drop(slice, PACKET_HEADER_LEN)
         IN  IF LessThanWord(Len(body), ph.incl_len)
             THEN [ok |-> FALSE, err |-> "TruncatedPacketData"]
             ELSE [ok |-> TRUE,
                   packet |-> [header |-> ph, data |-> Take(body, Val(ph.incl_len))],
                   rem |-> Drop(body, Val(ph.incl_len))]

(***************************************************************************)
(* The sink: any T: Write.  write_all either appends the whole buffer and  *)
(* returns Ok, or returns Err after the sink accepted a strict prefix of   *)
(* it: nothing ("refuse") or all but the last byte ("short").  An empty    *)
(* buffer is never handed to the sink and always succeeds.                 *)
(***************************************************************************)
Faults == {"none", "refuse", "short"}

write_all(writer, buf, fault) ==
    IF buf = <<>> \/ fault = "none"
    THEN [ok |-> TRUE, writer |-> writer \o buf]
    ELSE IF fault = "refuse"
         THEN [ok |-> FALSE, writer |-> writer]
         ELSE [ok |-> FALSE, writer |-> writer \o Take(buf, Len(buf) - 1)]

(***************************************************************************)
(* PcapWriter.                                                             *)
(***************************************************************************)
\* The header PcapWriter::new builds.
DefaultHeader ==
    [magic_number  |-> MAGIC_BE_USEC,
     version_major |-> VERSION_MAJOR,
     version_minor |-> VERSION_MINOR,
     ts_correction |-> 0,
     ts_accuracy   |-> W(0),
     snaplen       |-> W(SNAPLEN),
     datalink      |-> W(DATALINK_ETHERNET)]

\* with_header as it would be if it kept the default header instead of the
\* one it wrote.
with_header_keeps_default(hdr, writer, fault) ==
    IF hdr.magic_number \in {MAGIC_BE_USEC, MAGIC_LE_USEC}
    THEN LET order == IF hdr.magic_number = MAGIC_BE_USEC THEN "Big" ELSE "Little"
             w == write_all(writer, PcapHeader_to_array(hdr, order), fault)
         IN  IF w.ok
             THEN [ret |-> "ok", header |-> DefaultHeader, writer |-> w.writer]
             ELSE [ret |-> "err", header |-> None, writer |-> w.writer]
    ELSE [ret |-> "panic", header |-> None, writer |-> writer]

\* PcapWriter::with_header: the match on the magic number, the write of the
\* encoded header, and the construction of the PcapWriter.  (to_array fills
\* a Vec and cannot fail; unreachable!() panics and drops the writer.)
with_header(hdr, writer, fault) ==
    IF hdr.magic_number \in {MAGIC_BE_USEC, MAGIC_LE_USEC}
    THEN LET order == IF hdr.magic_number = MAGIC_BE_USEC THEN "Big" ELSE "Little"
             w == write_all(writer, PcapHeader_to_array(hdr, order), fault)
         IN  IF w.ok
             THEN [ret |-> "ok", header |-> hdr, writer |-> w.writer]
             ELSE [ret |-> "err", header |-> None, writer |-> w.writer]
    ELSE [ret |-> "panic", header |-> None, writer |-> writer]

\* PcapWriter::new.
new(writer, fault) == with_header(DefaultHeader, writer, fault)

\* write_packet as it would be if it dropped the result of the header write
\* instead of returning it with `?`.
write_packet_ignores_header_error(hdr, writer, packet, hfault, dfault) ==
    IF hdr.magic_number \in {MAGIC_BE_USEC, MAGIC_LE_USEC}
    THEN LET order == IF hdr.magic_number = MAGIC_BE_USEC THEN "Big" ELSE "Little"
             h == write_all(writer, PacketHeader_to_array(packet.header, order), hfault)
             d == write_all(h.writer, packet.data, dfault)
         IN  [ret |-> IF h.ok /\ d.ok THEN "ok" ELSE "err", writer |-> d.writer]
    ELSE [ret |-> "panic", writer |-> writer]

\* write_packet as it would be if it wrote the payload before the header.
write_packet_payload_first(hdr, writer, packet, hfault, dfault) ==
    IF hdr.magic_number \in {MAGIC_BE_USEC, MAGIC_LE_USEC}
    THEN LET order == IF hdr.magic_number = MAGIC_BE_USEC THEN "Big" ELSE "Little"
             d == write_all(writer, packet.data, dfault)
         IN  IF ~d.ok
             THEN [ret |-> "err", writer |-> d.writer]
             ELSE LET h == write_all(d.writer,
                                     PacketHeader_to_array(packet.header, order), hfault)
                  IN  [ret |-> IF h.ok THEN "ok" ELSE "err", writer |-> h.writer]
    ELSE [ret |-> "panic", writer |-> writer]

\* PcapWriter::write_packet: the packet header in the byte order of the
\* stored header, then the payload; `?` returns at the first failing write.
write_packet(hdr, writer, packet, hfault, dfault) ==
    IF hdr.magic_number \in {MAGIC_BE_USEC, MAGIC_LE_USEC}
    THEN LET order == IF hdr.magic_number = MAGIC_BE_USEC THEN "Big" ELSE "Little"
             h == write_all(writer, PacketHeader_to_array(packet.header, order), hfault)
         IN  IF ~h.ok
             THEN [ret |-> "err", writer |-> h.writer]
             ELSE LET d == write_all(h.writer, packet.data, dfault)
                  IN  [ret |-> IF d.ok THEN "ok" ELSE "err", writer |-> d.writer]
    ELSE [ret |-> "panic", writer |-> writer]

\* The Packet write would build if it took orig_len from somewhere else
\* than data.len(): here, from the default snaplen.
WritePacketOf_orig_len_snaplen(ts_sec, ts_usec, data) ==
    [header |-> [ts_sec   |-> ts_sec,
                 ts_usec  |-> ts_usec,
                 incl_len |-> W(Len(data)),
                 orig_len |-> W(SNAPLEN)],
     data |-> data]

\* The Packet PcapWriter::write builds from its arguments.
WritePacketOf(ts_sec, ts_usec, data) ==
    [header |-> [ts_sec   |-> ts_sec,
                 ts_usec  |-> ts_usec,
                 incl_len |-> W(Len(data)),
                 orig_len |-> W(Len(data))],
     data |-> data]

\* PcapWriter::write.
write(hdr, writer, ts_sec, ts_usec, data, hfault, dfault) ==
    write_packet(hdr, writer, WritePacketOf(ts_sec, ts_usec, data), hfault, dfault)

(***************************************************************************)
(* PcapParser.                                                             *)
(***************************************************************************)
\* PcapParser::new.
PcapParser_new(slice) ==
    LET r == PcapHeader_from_slice(slice)
    IN  IF r.ok
        THEN [ok |-> TRUE, parser |-> [header |-> r.header], rem |-> r.rem]
        ELSE r

\* next_packet as it would be with the two arms of its match exchanged.
next_packet_arms_exchanged(self, slice) ==
    IF endianness(self.header) = "Big"
    THEN Packet_from_slice("Little", slice, ts_resolution(self.header))
    ELSE Packet_from_slice("Big", slice, ts_resolution(self.header))

\* PcapParser::next_packet.
next_packet(self, slice) ==
    IF endianness(self.header) = "Big"
    THEN Packet_from_slice("Big", slice, ts_resolution(self.header))
    ELSE Packet_from_slice("Little", slice, ts_resolution(self.header))

\* A parser that a call changes: it comes out holding the header of the
\* other byte order.
ParserFlippedByNextPacket(self) ==
    [self EXCEPT !.header.magic_number = Reverse(self.header.magic_number)]

\* next_packet takes &self: the parser after a call is the parser before it.
ParserAfterNextPacket(self) == self

(***************************************************************************)
(* Inputs.                                                                 *)
(***************************************************************************)
\* Headers a caller hands to with_header: the default one under each of the
\* four accepted magic numbers, and under a value that is none of them.
HeaderInputs == {[DefaultHeader EXCEPT !.magic_number = m] : m \in AcceptedMagics \cup {W(0)}}

\* (ts_sec, ts_usec): zero, and values whose four bytes all differ.
TsInputs == {<<W(0), W(0)>>, <<W(16909060), W(168496141)>>}

\* Payloads of every length up to MaxData; byte i is 0x11 * i.
Payload(n) == [i \in 1..n |-> 17 * i]

DataInputs == {Payload(n) : n \in 0..MaxData}

\* (incl_len, orig_len) a caller of write_packet stores in the header: a
\* capture truncated from a longer packet, and an incl_len that is not the
\* payload's length.  (Both equal to the payload's length is what write
\* builds.)
LenInputs(data) ==
    {<<W(Len(data)), W(Len(data) + 1)>>,
     <<W(Len(data) + 1), W(Len(data) + 1)>>}

PacketInputs ==
    UNION {{[header |-> [ts_sec |-> ts[1], ts_usec |-> ts[2],
                         incl_len |-> l[1], orig_len |-> l[2]],
             data |-> d] : l \in LenInputs(d)} : <<ts, d>> \in TsInputs \X DataInputs}

(***************************************************************************)
(* State.                                                                  *)
(*   wstate   "init" before construction, "live" while a PcapWriter        *)
(*            exists, "failed" / "panicked" when construction returned Err *)
(*            or panicked, "consumed" after into_writer                    *)
(*   header   PcapWriter.header (None while there is no PcapWriter)        *)
(*   sink     the bytes the wrapped writer T has accepted                  *)
(*   ret      what the last Writer operation returned                      *)
(*   call     the last Writer operation: its name, its arguments and the   *)
(*            sink before it                                               *)
(*   built    the constructor that returned Ok and the header handed to it *)
(*   written  the write / write_packet calls that returned Ok, in call     *)
(*            order: the operation, its arguments and the Packet encoded   *)
(*   ncalls   the number of write / write_packet calls made                *)
(*   nfailed  the number of those that returned Err                        *)
(*   pstat    the reader: "idle", "ready" (holds pcap), "parsing" (in the  *)
(*            documented loop), "done", "failed" (an unwrap panicked)      *)
(*   pcap     the buffer handed to the reader                              *)
(*   parser   the PcapParser                                               *)
(*   src      the loop's remaining slice                                   *)
(*   packets  the packets the loop has printed                             *)
(*   perr     the error the failing unwrap met                             *)
(*   probe    the first next_packet call made beside the loop: its slice   *)
(*            and its result                                               *)
(*   last     the latest next_packet call: its slice, its result, and      *)
(*            whether it repeats probe's call (same slice, later)          *)
(***************************************************************************)
VARIABLES wstate, header, sink, ret, call, built, written, ncalls, nfailed,
          pstat, pcap, parser, src, packets, perr, probe, last

wvars == <<wstate, header, sink, ret, call, built, written, ncalls, nfailed>>

pvars == <<pstat, pcap, parser, src, packets, perr, probe, last>>

vars == <<wstate, header, sink, ret, call, built, written, ncalls, nfailed,
          pstat, pcap, parser, src, packets, perr, probe, last>>

NoCall == [op |-> "none"]

ReaderIdle ==
    /\ pstat = "idle"
    /\ pcap = <<>>
    /\ parser = None
    /\ src = <<>>
    /\ packets = <<>>
    /\ perr = "none"
    /\ probe = None
    /\ last = None

Init ==
    /\ wstate = "init"
    /\ header = None
    /\ sink = <<>>
    /\ ret = "none"
    /\ call = NoCall
    /\ built = None
    /\ written = <<>>
    /\ ncalls = 0
    /\ nfailed = 0
    /\ ReaderIdle

(***************************************************************************)
(* Writer operations.                                                      *)
(***************************************************************************)
Constructed(op, hdr, fault, r) ==
    /\ wstate' = (CASE r.ret = "ok" -> "live"
                    [] r.ret = "err" -> "failed"
                    [] OTHER -> "panicked")
    /\ header' = r.header
    /\ sink' = r.writer
    /\ ret' = r.ret
    /\ call' = [op |-> op, header |-> hdr, pre |-> sink, fault |-> fault]
    /\ built' = IF r.ret = "ok" THEN [op |-> op, header |-> hdr] ELSE None
    /\ UNCHANGED <<written, ncalls, nfailed>>

New ==
    /\ wstate = "init"
    /\ \E fault \in Faults : Constructed("new", DefaultHeader, fault, new(sink, fault))
    /\ UNCHANGED pvars

WithHeader ==
    /\ wstate = "init"
    /\ \E hdr \in HeaderInputs, fault \in Faults :
          Constructed("with_header", hdr, fault, with_header(hdr, sink, fault))
    /\ UNCHANGED pvars

\* The sink fails at most once in a run: a transient fault, after which the
\* caller may go on writing.
FaultsNow == IF nfailed = 0 THEN Faults ELSE {"none"}

Wrote(op, ts_sec, ts_usec, data, packet, hfault, r) ==
    /\ sink' = r.writer
    /\ ret' = r.ret
    /\ call' = [op |-> op, ts_sec |-> ts_sec, ts_usec |-> ts_usec, data |-> data,
                 packet |-> packet, pre |-> sink, hfault |-> hfault]
    /\ written' = IF r.ret = "ok"
                  THEN Append(written, [op |-> op, ts_sec |-> ts_sec, ts_usec |-> ts_usec,
                                        data |-> data, packet |-> packet])
                  ELSE written
    /\ ncalls' = ncalls + 1
    /\ nfailed' = IF r.ret = "ok" THEN nfailed ELSE nfailed + 1
    /\ UNCHANGED <<wstate, header, built>>

Write ==
    /\ wstate = "live"
    /\ ncalls < MaxPackets
    /\ \E ts \in TsInputs, data \in DataInputs, hfault \in FaultsNow, dfault \in FaultsNow :
          Wrote("write", ts[1], ts[2], data, WritePacketOf(ts[1], ts[2], data), hfault,
                write(header, sink, ts[1], ts[2], data, hfault, dfault))
    /\ UNCHANGED pvars

WritePacket ==
    /\ wstate = "live"
    /\ ncalls < MaxPackets
    /\ \E packet \in PacketInputs, hfault \in FaultsNow, dfault \in FaultsNow :
          Wrote("write_packet", packet.header.ts_sec, packet.header.ts_usec, packet.data,
                packet, hfault,
                write_packet(header, sink, packet, hfault, dfault))
    /\ UNCHANGED pvars

\* PcapWriter::get_ref: a shared reference to the wrapped writer.
GetRef ==
    /\ wstate = "live"
    /\ ret' = "ref"
    /\ call' = [op |-> "get_ref", pre |-> sink]
    /\ UNCHANGED <<wstate, header, sink, built, written, ncalls, nfailed>>
    /\ UNCHANGED pvars

\* PcapWriter::get_mut: a mutable reference to the wrapped writer.  What a
\* caller writes through it is no operation of PcapWriter.
GetMut ==
    /\ wstate = "live"
    /\ ret' = "mut"
    /\ call' = [op |-> "get_mut", pre |-> sink]
    /\ UNCHANGED <<wstate, header, sink, built, written, ncalls, nfailed>>
    /\ UNCHANGED pvars

\* PcapWriter::into_writer: the PcapWriter is consumed and the wrapped
\* writer returned; its bytes are what a reader of the capture gets.
IntoWriter ==
    /\ wstate = "live"
    /\ wstate' = "consumed"
    /\ header' = None
    /\ ret' = "writer"
    /\ call' = [op |-> "into_writer", pre |-> sink]
    /\ UNCHANGED <<sink, built, written, ncalls, nfailed>>
    /\ pstat' = "ready"
    /\ pcap' = sink
    /\ UNCHANGED <<parser, src, packets, perr, probe, last>>

(***************************************************************************)
(* The reader: the documented loop of PcapParser.                          *)
(***************************************************************************)
\* The loop's turn as it would be without `src = rem`.
loop_turn_keeps_src(st) ==
    IF st.src = <<>>
    THEN [st EXCEPT !.stat = "done"]
    ELSE LET r == next_packet(st.parser, st.src)
         IN  IF r.ok
             THEN [st EXCEPT !.packets = Append(st.packets, r.packet)]
             ELSE [st EXCEPT !.stat = "failed", !.err = r.err]

\* One turn of: while !src.is_empty() { let (packet, rem) =
\* pcap_parser.next_packet(src).unwrap(); ...; src = rem; }
loop_turn(st) ==
    IF st.src = <<>>
    THEN [st EXCEPT !.stat = "done"]
    ELSE LET r == next_packet(st.parser, st.src)
         IN  IF r.ok
             THEN [st EXCEPT !.parser = ParserAfterNextPacket(st.parser),
                             !.packets = Append(st.packets, r.packet),
                             !.src = r.rem]
             ELSE [st EXCEPT !.parser = ParserAfterNextPacket(st.parser),
                             !.stat = "failed",
                             !.err = r.err]

\* let (pcap_parser, rem) = PcapParser::new(&pcap[..]).unwrap(); src = rem;
loop_start(buf) ==
    LET r == PcapParser_new(buf)
    IN  IF r.ok
        THEN [stat |-> "parsing", parser |-> r.parser, src |-> r.rem,
              packets |-> <<>>, err |-> "none"]
        ELSE [stat |-> "failed", parser |-> None, src |-> <<>>,
              packets |-> <<>>, err |-> r.err]

\* The loop run to its end.  Every turn that does not end it shortens src
\* by at least the 16 bytes of a packet header, so the fuel never runs out.
RECURSIVE run_loop(_, _)
run_loop(st, fuel) ==
    IF st.stat # "parsing" \/ fuel = 0 THEN st ELSE run_loop(loop_turn(st), fuel - 1)

ReaderState == [stat |-> pstat, parser |-> parser, src |-> src,
                packets |-> packets, err |-> perr]

SetReader(st) ==
    /\ pstat' = st.stat
    /\ parser' = st.parser
    /\ src' = st.src
    /\ packets' = st.packets
    /\ perr' = st.err

\* The whole documented example, run on the bytes into_writer returned.
ReadBack ==
    /\ pstat = "ready"
    /\ wstate = "consumed"
    /\ SetReader(run_loop(loop_start(pcap), Len(pcap) + 1))
    /\ UNCHANGED <<pcap, probe, last>>
    /\ UNCHANGED wvars

Next ==
    \/ New
    \/ WithHeader
    \/ Write
    \/ WritePacket
    \/ GetRef
    \/ GetMut
    \/ IntoWriter
    \/ ReadBack

Spec == Init /\ [][Next]_vars

(***************************************************************************)
(* The Parser on its own: captures from any tool, whole or cut short.      *)
(***************************************************************************)
\* Packets found in captures: a payload with its length in the header, with
\* a length one too large, and with its length stored in the other byte
\* order.
CapturePackets ==
    UNION {{[header |-> [ts_sec |-> W(16909060), ts_usec |-> W(168496141),
                         incl_len |-> l, orig_len |-> l],
             data |-> d] : l \in {W(Len(d)), W(Len(d) + 1), Reverse(W(Len(d)))}}
           : d \in DataInputs}

RECURSIVE SeqsUpTo(_, _)
SeqsUpTo(S, n) ==
    IF n = 0 THEN {<<>>}
    ELSE LET shorter == SeqsUpTo(S, n - 1)
         IN  shorter \cup {Append(q, x) : q \in {t \in shorter : Len(t) = n - 1}, x \in S}

RECURSIVE Records(_, _)
Records(order, pkts) ==
    IF pkts = <<>> THEN <<>>
    ELSE PacketHeader_to_array(Head(pkts).header, order) \o Head(pkts).data
         \o Records(order, Tail(pkts))

Captures ==
    {PcapHeader_to_array(h, endianness(h)) \o Records(endianness(h), pkts)
        : h \in HeaderInputs, pkts \in SeqsUpTo(CapturePackets, MaxPackets)}

\* A capture, or a capture that lost its last byte.
ParserInputs == Captures \cup {Take(c, Len(c) - 1) : c \in Captures}

InitParser ==
    /\ wstate = "init"
    /\ header = None
    /\ sink = <<>>
    /\ ret = "none"
    /\ call = NoCall
    /\ built = None
    /\ written = <<>>
    /\ ncalls = 0
    /\ nfailed = 0
    /\ pstat = "ready"
    /\ pcap \in ParserInputs
    /\ parser = None
    /\ src = <<>>
    /\ packets = <<>>
    /\ perr = "none"
    /\ probe = None
    /\ last = None

ParserNew ==
    /\ pstat = "ready"
    /\ SetReader(loop_start(pcap))
    /\ UNCHANGED <<pcap, probe, last>>
    /\ UNCHANGED wvars

LoopStep ==
    /\ pstat = "parsing"
    /\ SetReader(loop_turn(ReaderState))
    /\ last' = IF src = <<>> THEN last
               ELSE [slice |-> src, res |-> next_packet(parser, src),
                     repeat |-> probe # None /\ probe.slice = src]
    /\ UNCHANGED <<pcap, probe>>
    /\ UNCHANGED wvars

\* Slices another reader of the same buffer hands to next_packet: all that
\* follows the global header, what the loop has left, and the empty slice.
ProbeSlices == {Drop(pcap, GLOBAL_HEADER_LEN), src, <<>>}

\* A next_packet call beside the loop, on the same PcapParser.
Probe ==
    /\ parser # None
    /\ \E s \in ProbeSlices :
          LET r == next_packet(parser, s)
          IN  /\ probe' = IF probe = None THEN [slice |-> s, first |-> r] ELSE probe
              /\ last' = [slice |-> s, res |-> r,
                           repeat |-> probe # None /\ probe.slice = s]
    /\ parser' = ParserAfterNextPacket(parser)
    /\ UNCHANGED <<pstat, pcap, src, packets, perr>>
    /\ UNCHANGED wvars

NextParser ==
    \/ ParserNew
    \/ LoopStep
    \/ Probe

SpecParser == InitParser /\ [][NextParser]_vars

\* The documented example alone: one reader, which runs PcapParser::new
\* and then every turn of its loop; nothing suspends it.
NextLoop ==
    \/ ParserNew
    \/ LoopStep

SpecLoop == InitParser /\ [][NextLoop]_vars /\ WF_vars(NextLoop)

(***************************************************************************)
(* Properties.                                                             *)
(***************************************************************************)
\* The byte order of the header the constructor wrote.
BuiltOrder == IF built.header.magic_number = MAGIC_BE_USEC THEN "Big" ELSE "Little"

\* What the last operation appended to the sink.
Appended == Drop(sink, Len(call.pre))

WriteOps == {"write", "write_packet"}

WrittenPackets == [i \in 1..Len(written) |-> written[i].packet]

RECURSIVE RecordBytes(_)
RecordBytes(pkts) ==
    IF pkts = <<>> THEN 0
    ELSE PACKET_HEADER_LEN + Len(Head(pkts).data) + RecordBytes(Tail(pkts))

\* C1: after a successful write_packet, the captured_length field of the
\* 16-byte header appended to the sink is the number of payload bytes
\* appended after it, whatever incl_len the caller stored in the packet.
C1_CapturedLengthIsPayloadLength ==
    (call.op = "write_packet" /\ ret = "ok") =>
        /\ Len(Appended) >= PACKET_HEADER_LEN
        /\ read_u32(BuiltOrder, SubSeq(Appended, 9, 12))
              = W(Len(Appended) - PACKET_HEADER_LEN)

\* C2: with_header, given a working sink and a header with one of the four
\* accepted magic numbers, writes the 24-byte header and returns a Writer.
C2_AcceptedMagicConstructs ==
    (call.op = "with_header" /\ call.fault = "none"
        /\ call.header.magic_number \in AcceptedMagics) =>
        /\ ret = "ok"
        /\ wstate = "live"
        /\ Len(sink) = Len(call.pre) + GLOBAL_HEADER_LEN

\* C3: a capture made by PcapWriter::new and successful write calls only,
\* read back by the documented loop, parses without error to an empty
\* remainder and yields the written packets in write order: same
\* timestamps, captured_length = original_length = the data's length, same
\* data.
C3_WriterParserRoundTrip ==
    (/\ pstat \in {"done", "failed"}
     /\ built # None /\ built.op = "new"
     /\ nfailed = 0
     /\ \A i \in 1..Len(written) : written[i].op = "write") =>
        /\ pstat = "done"
        /\ src = <<>>
        /\ Len(packets) = Len(written)
        /\ \A i \in 1..Len(written) :
              /\ packets[i].header.ts_sec = written[i].ts_sec
              /\ packets[i].header.ts_usec = written[i].ts_usec
              /\ packets[i].header.incl_len = W(Len(written[i].data))
              /\ packets[i].header.orig_len = W(Len(written[i].data))
              /\ packets[i].data = written[i].data

C3_Witness ==
    /\ pstat = "done"
    /\ built # None /\ built.op = "new"
    /\ nfailed = 0
    /\ Len(written) = 2
    /\ \A i \in 1..2 : written[i].op = "write"
    /\ written[1].data = <<>>
    /\ Len(written[2].data) = 2
    /\ written[2].ts_sec # W(0)
    /\ Len(packets) = 2

\* C4: a successful write appends 16 + len(data) bytes: ts_seconds,
\* ts_fraction, captured_length and original_length (both len(data)) in the
\* Writer's byte order, then the data.
C4_WriteAppendsRecord ==
    (call.op = "write" /\ ret = "ok") =>
        /\ Len(sink) = Len(call.pre) + PACKET_HEADER_LEN + Len(call.data)
        /\ sink = call.pre
                  \o write_u32(BuiltOrder, call.ts_sec)
                  \o write_u32(BuiltOrder, call.ts_usec)
                  \o write_u32(BuiltOrder, W(Len(call.data)))
                  \o write_u32(BuiltOrder, W(Len(call.data)))
                  \o call.data

C4_Witness ==
    /\ call.op = "write" /\ ret = "ok"
    /\ call.data = <<>>
    /\ call.ts_sec # W(0)
    /\ built.header.magic_number = MAGIC_LE_USEC
    /\ Len(sink) = Len(call.pre) + PACKET_HEADER_LEN
    /\ Len(written) = 2
    /\ written[1].op = "write"
    /\ Len(written[1].data) = 2

\* C5: a write / write_packet that returns Err leaves every byte the sink
\* held before it in place; after a failed header write the sink gained
\* only a strict prefix of the 16 header bytes and no payload byte; after a
\* failed payload write it gained the 16 header bytes and a strict prefix
\* of the payload.
C5_FailedWriteKeepsAcceptedBytes ==
    (call.op \in WriteOps /\ ret = "err") =>
        LET hb == PacketHeader_to_array(call.packet.header, BuiltOrder)
        IN  /\ Len(sink) >= Len(call.pre)
            /\ Take(sink, Len(call.pre)) = call.pre
            /\ Len(call.pre) >= GLOBAL_HEADER_LEN
            /\ IF call.hfault # "none"
               THEN /\ Len(Appended) < PACKET_HEADER_LEN
                    /\ Appended = Take(hb, Len(Appended))
               ELSE /\ Len(Appended) >= PACKET_HEADER_LEN
                    /\ Len(Appended) < PACKET_HEADER_LEN + Len(call.packet.data)
                    /\ Take(Appended, PACKET_HEADER_LEN) = hb
                    /\ Drop(Appended, PACKET_HEADER_LEN)
                          = Take(call.packet.data, Len(Appended) - PACKET_HEADER_LEN)

C5_Witness ==
    /\ call.op = "write_packet" /\ ret = "err"
    /\ call.hfault = "none"
    /\ Len(written) = 1
    /\ Len(call.packet.data) = 2
    /\ Len(sink) = Len(call.pre) + PACKET_HEADER_LEN + 1

\* C8: after a successful construction and successful write / write_packet
\* calls only, the sink is the 24-byte global header followed by one record
\* per call in call order, each its 16 header bytes then its payload; the
\* bytes the sink held before the last call are still its first bytes.
C8_SinkIsHeaderThenRecords ==
    (wstate \in {"live", "consumed"} /\ nfailed = 0) =>
        /\ sink = PcapHeader_to_array(built.header, BuiltOrder)
                  \o Records(BuiltOrder, WrittenPackets)
        /\ Len(sink) = GLOBAL_HEADER_LEN + RecordBytes(WrittenPackets)
        /\ Take(sink, Len(call.pre)) = call.pre

C8_Witness ==
    /\ wstate = "live" /\ nfailed = 0
    /\ Len(written) = 2
    /\ written[1].op = "write_packet"
    /\ written[2].op = "write"
    /\ Len(written[1].data) = 2
    /\ Len(written[2].data) = 1
    /\ written[1].ts_sec # written[2].ts_sec
    /\ built.header.magic_number = MAGIC_LE_USEC

\* C9: while a PcapWriter exists, the header it stores is the header the
\* first 24 bytes of the sink decode to, its magic number is one write_packet
\* has an arm for, no write / write_packet panics, and a record's header is
\* encoded in the byte order those 24 bytes declare.
C9_StoredHeaderIsWrittenHeader ==
    /\ wstate = "live" =>
          LET r == PcapHeader_from_slice(sink)
          IN  /\ r.ok
              /\ r.header = header
              /\ header = built.header
              /\ header.magic_number \in {MAGIC_BE_USEC, MAGIC_LE_USEC}
              /\ (call.op \in WriteOps /\ ret = "ok") =>
                    Take(Appended, PACKET_HEADER_LEN)
                       = PacketHeader_to_array(call.packet.header, endianness(r.header))
    /\ call.op \in WriteOps => ret # "panic"

C9_Witness ==
    /\ wstate = "live"
    /\ built.op = "with_header"
    /\ header.magic_number = MAGIC_LE_USEC
    /\ call.op = "get_mut"
    /\ Len(written) = 1
    /\ nfailed = 1

\* The captured_length the first 16 bytes of a slice declare, read in the
\* byte order of the header the parser was built from.
DeclaredLength(slice) ==
    read_u32(endianness(PcapHeader_from_slice(pcap).header), SubSeq(slice, 9, 12))

\* C6: next_packet fails with the header-truncation error on a slice
\* shorter than 16 bytes (the empty one included), fails with the
\* packet-data-truncation error on a slice whose 16-byte header declares
\* more payload than follows it, and returns a packet only for a slice
\* that holds the whole record, with the whole payload.
C6_NoPacketFromShortBuffer ==
    last # None =>
        LET n == Len(last.slice)
        IN  /\ n < PACKET_HEADER_LEN =>
                  (~last.res.ok /\ last.res.err = "TruncatedHeader")
            /\ (n >= PACKET_HEADER_LEN
                  /\ LessThanWord(n - PACKET_HEADER_LEN, DeclaredLength(last.slice))) =>
                  (~last.res.ok /\ last.res.err = "TruncatedPacketData")
            /\ last.res.ok =>
                  /\ n >= PACKET_HEADER_LEN
                  /\ ~LessThanWord(n - PACKET_HEADER_LEN, DeclaredLength(last.slice))
                  /\ W(Len(last.res.packet.data)) = DeclaredLength(last.slice)

C6_Witness ==
    /\ probe # None /\ last # None
    /\ probe.slice = <<>>
    /\ ~probe.first.ok /\ probe.first.err = "TruncatedHeader"
    /\ Len(last.slice) > PACKET_HEADER_LEN
    /\ ~last.res.ok /\ last.res.err = "TruncatedPacketData"
    /\ DeclaredLength(last.slice) = W(Len(last.slice) - PACKET_HEADER_LEN + 1)

C10_Consumes ==
    /\ (last # None /\ last.res.ok) =>
          LET n == Val(DeclaredLength(last.slice))
          IN  /\ Len(last.res.rem) = Len(last.slice) - (PACKET_HEADER_LEN + n)
              /\ Len(last.res.rem) < Len(last.slice)
              /\ last.res.rem = Drop(last.slice, PACKET_HEADER_LEN + n)
              /\ last.res.packet.data = SubSeq(last.slice, PACKET_HEADER_LEN + 1,
                                               PACKET_HEADER_LEN + n)
    /\ pstat \in {"parsing", "done"} =>
          src = Drop(pcap, GLOBAL_HEADER_LEN + RecordBytes(packets))
    /\ pstat = "done" => src = <<>>
    /\ pstat = "failed" => perr # "none"

\* C10: every successful next_packet consumes 16 + captured_length bytes,
\* and the documented loop ends, done or failed.
C10_LoopTerminates == []C10_Consumes /\ <>(pstat \in {"done", "failed"})

C10_Witness ==
    /\ pstat = "done"
    /\ Len(packets) = 2
    /\ packets[1].data = <<>>
    /\ Len(packets[2].data) = 2
    /\ last # None /\ last.res.ok
    /\ Len(last.slice) = PACKET_HEADER_LEN + 2
    /\ last.res.rem = <<>>

=============================================================================
